---- MODULE Spec2Model ----
(***************************************************************************)
(* Model of src/mm/main.c: the matrix-multiplication micro-benchmark.      *)
(*                                                                         *)
(* The main thread runs main(); every "#pragma omp parallel" forks a team  *)
(* of nthreads workers (worker 0 is the main thread itself) that is joined *)
(* at the end of the region.  Each worker steps through profile_start, the *)
(* work-shared loop and profile_end; the read-modify-write                 *)
(*     MATRIX(c, i, j) += MATRIX(a, i, k)*MATRIX(b, k, j)                  *)
(* is two steps (load and compute, then store), so that a cell shared by   *)
(* two workers would show as a lost update.                                *)
(*                                                                         *)
(* Doubles are held in fixed point, in hundredths: rand()/10.0 is the      *)
(* integer 10*rand(), and a product of two such values is exact.  The      *)
(* rounding of IEEE doubles is not modelled.                               *)
(***************************************************************************)
EXTENDS Integers, Sequences, FiniteSets, TLC

(* ------------------------------ bounds --------------------------------- *)

\* Largest matrix size given on the command line (Spec).
MaxSize == 2

\* Largest team of worker threads in a whole run of the program (Spec).
MaxProcs == 2

\* Largest matrix size of a single kernel call (SpecKernel).
MaxN == 2

\* Largest team of worker threads of a single kernel call (SpecKernel).
MaxThreads == 3

\* Period of the sequence of values rand() returns (Spec).
RandPeriod == 2

\* Period of the sequence of values that fills the operands of a single
\* kernel call (SpecKernel).
OperandPeriod == 3

\* Matrix size of the kernel calls on main's operands (SpecSparse): the
\* smallest size at which sparsematrix_init has a row to thin out.
SparseSize == 3

\* Largest team of worker threads of these kernel calls (SpecSparse).
SparseThreads == 2

\* Period of the sequence of values rand() returns (SpecSparse).
SparsePeriod == 2

\* Largest of the small sizes a create routine is called with (SpecCreate).
MaxCreateSmall == 12

\* Largest matrix size of main's initialization (SpecInit).
MaxInitN == 5

\* Period of the sequence of values rand() returns (SpecInit).
InitPeriod == 3

(* ------------------------- program constants --------------------------- *)

NITERATIONS == 5

SPARSE_FACTOR == 80

EXIT_SUCCESS == 0

EXIT_FAILURE == 1

\* The widths of int and of size_t, the largest int, sizeof(double), and
\* the values of one byte.
IntBytes == 4

SizeBytes == 8

INT_MAX == 2147483647

SizeOfDouble == 8

Byte == 256

\* The values rand() may return: 0, a value whose residue modulo 100 is at
\* most SPARSE_FACTOR, and one whose residue is above it.
RandValues == {0, 3, 85}

\* Every sequence of RandPeriod values; rand() cycles through one of them.
RandSeqs == [1..RandPeriod -> RandValues]

\* The values rand() may return during main's initialization (SpecInit): 0,
\* and values whose residues modulo 100 are below, just below, at, just
\* above and above SPARSE_FACTOR, one of them beyond 100.
InitDraws == {0, 3, 79, 80, 81, 99, 180}

PolicyFlags == {"_SCHEDULE_STATIC_", "_SCHEDULE_DYNAMIC_", "_SCHEDULE_GUIDED_"}

Kernels == <<"matrix_mult1", "matrix_mult2", "sparsematrix_mult">>

Labels == <<"mult1", "mult2", "sparsemult">>

\* The matrices of main, in the order main creates and initializes them.
CreateOrder == <<"a1", "b", "c1", "c2", "c3", "a2">>

MatrixNames == {"a1", "a2", "b", "c1", "c2", "c3"}

\* The arguments main passes to the kernel of benchmark k.
\* (KernelArgsSharedAccumulator passes c1 to matrix_mult2 as well.)
KernelArgsSharedAccumulator(k) ==
    CASE k = 1 -> [c |-> "c1", a |-> "a1", b |-> "b"]
      [] k = 2 -> [c |-> "c1", a |-> "a1", b |-> "b"]
      [] k = 3 -> [c |-> "c3", a |-> "a2", b |-> "b"]

KernelArgs(k) ==
    CASE k = 1 -> [c |-> "c1", a |-> "a1", b |-> "b"]
      [] k = 2 -> [c |-> "c2", a |-> "a1", b |-> "b"]
      [] k = 3 -> [c |-> "c3", a |-> "a2", b |-> "b"]

(* ------------------------------ atoi ----------------------------------- *)

DigitChars == <<"0", "1", "2", "3", "4", "5", "6", "7", "8", "9">>

IsDigit(ch) == \E d \in 1..10 : DigitChars[d] = ch

DigitVal(ch) == (CHOOSE d \in 1..10 : DigitChars[d] = ch) - 1

IsSpace(ch) == ch \in {" ", "\t", "\n"}

RECURSIVE SkipSpace(_)
SkipSpace(s) ==
    IF s # <<>> /\ IsSpace(Head(s)) THEN SkipSpace(Tail(s)) ELSE s

RECURSIVE AtoiDigits(_, _)
AtoiDigits(s, acc) ==
    IF s = <<>> \/ ~IsDigit(Head(s))
    THEN acc
    ELSE AtoiDigits(Tail(s), 10 * acc + DigitVal(Head(s)))

\* atoi: leading white space, an optional sign, then the longest run of
\* digits; 0 when no digit follows.
Atoi(s) ==
    LET t == SkipSpace(s)
    IN  IF t # <<>> /\ Head(t) = "-" THEN 0 - AtoiDigits(Tail(t), 0)
        ELSE IF t # <<>> /\ Head(t) = "+" THEN AtoiDigits(Tail(t), 0)
        ELSE AtoiDigits(t, 0)

\* The decimal numeral of k, as a command-line argument.
RECURSIVE Numeral(_)
Numeral(k) ==
    IF k < 0 THEN <<"-">> \o Numeral(0 - k)
    ELSE IF k < 10 THEN <<DigitChars[k + 1]>>
    ELSE Numeral(k \div 10) \o <<DigitChars[(k % 10) + 1]>>

ProgName == <<"m", "m">>

\* The command lines: no argument, the numerals of -1..MaxSize, arguments
\* that are no decimal integer, and a numeral followed by more text.
ArgvSet ==
    {<<ProgName>>}
    \cup {<<ProgName, Numeral(k)>> : k \in (0 - 1)..MaxSize}
    \cup {<<ProgName, <<"a", "b", "c">>>>, <<ProgName, <<>>>>,
          <<ProgName, <<"1", "x">>>>, <<ProgName, <<" ", "+", "1">>, <<"7">>>>}

(* --------------------------- matrices ---------------------------------- *)

\* MATRIX(m, i, j) is m[(i)*n + (j)].
MATRIX(n, i, j) == i * n + j

Cells(n) == 0..(n * n - 1)

\* The buffer matrix_create returns: n*n cells, all zero.
ZeroMatrix(n) == [idx \in Cells(n) |-> 0]

\* rand()/10.0, in hundredths.
Tenth(r) == 10 * r

\* The product of two doubles, in hundredths.
FMul(x, y) == (x * y) \div 100

\* The position of rand() in seq after one more call.
RandNext(seq, pos) == (pos % Len(seq)) + 1

\* The position of rand() in seq after count more calls.
RandAfter(seq, pos, count) == ((pos - 1 + count) % Len(seq)) + 1

\* What an initialization routine did for one cell: the zero flag and the
\* values rand() returned, in the order of the calls.
LogEntry(zero, draws) == [zero |-> zero, draws |-> draws]

\* matrix_init from cell idx on: the matrix, the position of rand() and the
\* log of the cells after the remaining calls of rand().
RECURSIVE MatrixInitFrom(_, _, _, _, _)
MatrixInitFrom(seq, m, n, idx, pos) ==
    IF idx = n * n
    THEN [m |-> m, pos |-> pos, log |-> <<>>]
    ELSE LET rest == MatrixInitFrom(seq, [m EXCEPT ![idx] = Tenth(seq[pos])],
                                    n, idx + 1, RandNext(seq, pos))
         IN  [rest EXCEPT !.log = <<LogEntry(FALSE, <<seq[pos]>>)>> \o @]

\* Whether sparsematrix_init draws the zero-or-value decision in row i.
\* (SparseEligibleAll draws it in every row; SparseEligibleFromHalf draws
\* it from row n/2 on.)
SparseEligibleAll(n, i) == TRUE

SparseEligibleFromHalf(n, i) == i >= n \div 2

SparseEligible(n, i) == i > n \div 2

\* The zero flag sparsematrix_init sets from the decision draw.
SparseZero(draw) == (draw % 100) <= SPARSE_FACTOR

\* sparsematrix_init from cell idx on.
RECURSIVE SparseInitFrom(_, _, _, _, _)
SparseInitFrom(seq, m, n, idx, pos) ==
    IF idx = n * n
    THEN [m |-> m, pos |-> pos, log |-> <<>>]
    ELSE LET i == idx \div n
             zero == SparseEligible(n, i) /\ SparseZero(seq[pos])
             vpos == IF SparseEligible(n, i) THEN RandNext(seq, pos) ELSE pos
             decision == IF SparseEligible(n, i) THEN <<seq[pos]>> ELSE <<>>
         IN  IF zero
             THEN LET rest == SparseInitFrom(seq, [m EXCEPT ![idx] = 0], n,
                                             idx + 1, vpos)
                  IN  [rest EXCEPT !.log = <<LogEntry(TRUE, decision)>> \o @]
             ELSE LET rest == SparseInitFrom(seq,
                                             [m EXCEPT ![idx] = Tenth(seq[vpos])],
                                             n, idx + 1, RandNext(seq, vpos))
                  IN  [rest EXCEPT !.log =
                           <<LogEntry(FALSE, decision \o <<seq[vpos]>>)>> \o @]

(* ------------------- the size a create routine asks for --------------- *)

(* Sizes are beyond the integers of the model checker, so a size is held   *)
(* as its bytes, least significant first.                                  *)

\* The int x >= 0 as len bytes.
Bytes(x, len) ==
    [i \in 1..len |-> IF i <= IntBytes THEN (x \div Byte ^ (i - 1)) % Byte
                                        ELSE 0]

\* The sum of the products x[i]*y[k+1-i] for i from from to k.
RECURSIVE ColumnSum(_, _, _, _)
ColumnSum(x, y, k, from) ==
    IF from > k THEN 0
    ELSE x[from] * y[k + 1 - from] + ColumnSum(x, y, k, from + 1)

\* The columns cols from column k on, the carry propagated.
RECURSIVE Carried(_, _, _)
Carried(cols, k, carry) ==
    IF k > Len(cols) THEN <<>>
    ELSE <<(cols[k] + carry) % Byte>>
         \o Carried(cols, k + 1, (cols[k] + carry) \div Byte)

\* The product of x and y, two numbers of as many bytes, cut to that many
\* bytes: the multiplication of an unsigned type of that width.
MulBytes(x, y) == Carried([k \in 1..Len(x) |-> ColumnSum(x, y, k, 1)], 1, 0)

\* The number x of fewer bytes as len bytes.
Widen(x, len) == [i \in 1..len |-> IF i <= Len(x) THEN x[i] ELSE 0]

\* n*n as the mathematical product, in SizeBytes + 1 bytes.
Square(size) ==
    MulBytes(Bytes(size, SizeBytes + 1), Bytes(size, SizeBytes + 1))

\* Whether the number x fits an int.
FitsInt(x) ==
    /\ \A i \in (IntBytes + 1)..Len(x) : x[i] = 0
    /\ x[IntBytes] < Byte \div 2

\* The int whose bits are the low IntBytes bytes of x, converted to size_t:
\* a negative int is sign-extended.
WrappedToSize(x) ==
    [i \in 1..SizeBytes |->
        IF i <= IntBytes THEN x[i]
        ELSE IF x[IntBytes] >= Byte \div 2 THEN Byte - 1 ELSE 0]

\* The values "n*n" can have as the size_t operand of "*sizeof(double)".
\* n*n is a multiplication of two ints; when the product does not fit an
\* int the behaviour is undefined: a build either keeps the low bits of
\* the product in an int register or multiplies in a wider register.
IntSquareAsSize(size) ==
    IF FitsInt(Square(size))
    THEN {WrappedToSize(Square(size))}
    ELSE {WrappedToSize(Square(size)), SubSeq(Square(size), 1, SizeBytes)}

\* The values of "n*n*sizeof(double)": a multiplication of size_t.
SizeArgs(size) ==
    {MulBytes(sq, Bytes(SizeOfDouble, SizeBytes)) : sq \in IntSquareAsSize(size)}

\* The bytes n*n cells of double take, as the mathematical product.
CellBytes(size) ==
    MulBytes(Square(size), Bytes(SizeOfDouble, SizeBytes + 1))

\* Whether malloc can serve a request of bytes x: no object is larger than
\* PTRDIFF_MAX bytes.
Servable(x) == x[SizeBytes] < Byte \div 2

(* --------------------------- scheduling -------------------------------- *)

\* The policy the #if chain of sparsematrix_mult compiles in: the first of
\* dynamic, guided, static whose flag is defined; none is the #error.
\* (SelectScheduleStaticFirst tests the flags in the opposite order.)
SelectScheduleStaticFirst(fl) ==
    IF "_SCHEDULE_STATIC_" \in fl THEN "static"
    ELSE IF "_SCHEDULE_GUIDED_" \in fl THEN "guided"
    ELSE IF "_SCHEDULE_DYNAMIC_" \in fl THEN "dynamic"
    ELSE "error"

SelectSchedule(fl) ==
    IF "_SCHEDULE_DYNAMIC_" \in fl THEN "dynamic"
    ELSE IF "_SCHEDULE_GUIDED_" \in fl THEN "guided"
    ELSE IF "_SCHEDULE_STATIC_" \in fl THEN "static"
    ELSE "error"

\* The schedule of an "omp for" without a schedule clause.
DefaultSchedule == "static"

\* schedule(static): the range [0, n) is cut into at most T contiguous
\* chunks, the first n % T of them one iteration longer; worker t gets the
\* t-th one.  (StaticLoNoRemainder places the chunk of worker t without the
\* n % T longer chunks before it.)
StaticLoNoRemainder(n, T, t) == t * (n \div T)

StaticLo(n, T, t) ==
    LET q == n \div T
        r == n % T
    IN  IF t < r THEN t * (q + 1) ELSE t * q + r

StaticHi(n, T, t) ==
    LET q == n \div T
        r == n % T
    IN  StaticLo(n, T, t) + (IF t < r THEN q + 1 ELSE q)

\* schedule(dynamic) hands out one iteration at a time; schedule(guided)
\* hands out the remaining iterations divided by the team size, rounded up.
\* (ChunkSizeFloor rounds down.)
ChunkSizeFloor(sched, remaining, T) ==
    IF sched = "dynamic" THEN 1 ELSE remaining \div T

ChunkSize(sched, remaining, T) ==
    IF sched = "dynamic" THEN 1 ELSE (remaining + T - 1) \div T

\* (ExecutesInverted tests the operand the wrong way round; ExecutesAlways
\* is sparsematrix_mult without its test.)
ExecutesInverted(kernel, av) == kernel = "sparsematrix_mult" => av = 0

ExecutesAlways(kernel, av) == TRUE

\* Whether the multiply-accumulate is executed for the operand value av.
Executes(kernel, av) == kernel = "sparsematrix_mult" => av # 0

\* (Overwrite assigns the product instead of adding it.)
Overwrite(cv, av, bv) == FMul(av, bv)

\* MATRIX(c, i, j) += MATRIX(a, i, k)*MATRIX(b, k, j): the value stored.
Accumulate(cv, av, bv) == cv + FMul(av, bv)

(* ----------------------------- state ----------------------------------- *)

VARIABLES
    argv,       \* the command line, argv[0] first
    flags,      \* the scheduling-policy flags defined at build time
    nthreads,   \* omp_get_num_procs(): the size of every team
    randSeq,    \* the values rand() cycles through
    randPos,    \* the position of rand() in randSeq
    pc,         \* where the main thread is
    schedule,   \* the policy compiled into sparsematrix_mult
    n,          \* the matrix size
    step,       \* which matrix of CreateOrder is being created
    heap,       \* per matrix: "unallocated", "live" or "freed"
    mat,        \* per matrix: its buffer, <<>> while there is none
    bench,      \* the benchmark running (1..3)
    it,         \* the iteration of the benchmark loop
    timing,     \* TRUE between the reads of start and end
    stdout,     \* the lines printed
    exit,       \* <<>> while running, <<status>> once exited
    profile,    \* the calls made to the profiling facility
    outer,      \* the loop variable i of matrix_mult2
    w,          \* per worker of the team: position and private variables
    next,       \* the next iteration the dynamic or guided loop hands out
    iterCount,  \* per iteration of the work-shared loop: times started
    touched,    \* per cell of c: the workers that accessed it in this region
    cEntry,     \* the accumulator as it was when the kernel was called
    c0,         \* the accumulators as they were after initialization
    calls,      \* per benchmark: kernel invocations so far
    regions,    \* parallel regions opened by the kernel call so far
    macs,       \* multiply-accumulates executed by the kernel call so far
    drawLog,    \* per cell of the last initialization: zero flag and draws
    buf         \* the call of a create routine that is being followed

inputs == <<argv, flags, nthreads, randSeq>>

mainVars == <<pc, schedule, n, step, heap, bench, it, timing, stdout, exit>>

teamVars == <<outer, w, next, iterCount, touched, regions, macs>>

initVars == <<drawLog, buf>>

ghostVars == <<cEntry, c0, calls>>

vars == <<argv, flags, nthreads, randSeq, randPos, pc, schedule, n, step, heap,
          mat, bench, it, timing, stdout, exit, profile, outer, w, next,
          iterCount, touched, cEntry, c0, calls, regions, macs, drawLog, buf>>

Team == 0..(nthreads - 1)

Idle == [pc |-> "idle", x |-> 0, hi |-> 0, j |-> 0, k |-> 0, tmp |-> 0]

\* The kernel that is running and its arguments.
Kern == Kernels[bench]

Args == KernelArgs(bench)

\* The schedule of the running kernel's work-shared loop.
LoopSchedule == IF Kern = "sparsematrix_mult" THEN schedule ELSE DefaultSchedule

\* No call of a create routine is being followed.
NoBuffer == [pc |-> "none"]

\* The create routine main is calling.
Routine ==
    IF CreateOrder[step] = "a2" THEN "sparsematrix_create" ELSE "matrix_create"

NoProfile(T) ==
    [setup |-> 0, dumps |-> 0, started |-> [t \in 0..(T - 1) |-> 0],
     ended |-> [t \in 0..(T - 1) |-> 0]]

(* The program before it is built and started. *)
Init ==
    /\ argv \in ArgvSet
    /\ flags \in SUBSET PolicyFlags
    /\ nthreads \in 1..MaxProcs
    /\ randSeq \in RandSeqs
    /\ randPos = 1
    /\ pc = "build"
    /\ schedule = "none"
    /\ n = 0
    /\ step = 1
    /\ heap = [m \in MatrixNames |-> "unallocated"]
    /\ mat = [m \in MatrixNames |-> <<>>]
    /\ bench = 1
    /\ it = 0
    /\ timing = FALSE
    /\ stdout = <<>>
    /\ exit = <<>>
    /\ profile = NoProfile(nthreads)
    /\ outer = 0
    /\ w = [t \in Team |-> Idle]
    /\ next = 0
    /\ iterCount = <<>>
    /\ touched = <<>>
    /\ cEntry = <<>>
    /\ c0 = [m \in {"c1", "c2", "c3"} |-> <<>>]
    /\ calls = [k \in 1..3 |-> 0]
    /\ regions = 0
    /\ macs = 0
    /\ drawLog = <<>>
    /\ buf = NoBuffer

(* ------------------------------ main ----------------------------------- *)

\* The build: the #error of sparsematrix_mult stops it.
Build ==
    /\ pc = "build"
    /\ schedule' = SelectSchedule(flags)
    /\ pc' = IF SelectSchedule(flags) = "error" THEN "build_failed" ELSE "main"
    /\ UNCHANGED <<inputs, initVars, randPos, n, step, heap, mat, bench, it, timing,
                   stdout, exit, profile, teamVars, ghostVars>>

UsageText == "usage: mm <matrix size>"

\* usage(): prints the usage text and exits.  (UsageFailure exits with the
\* failure status.)
UsageFailure ==
    /\ pc = "main"
    /\ Len(argv) < 2
    /\ stdout' = Append(stdout, UsageText)
    /\ exit' = <<EXIT_FAILURE>>
    /\ pc' = "exited"
    /\ UNCHANGED <<inputs, initVars, randPos, schedule, n, step, heap, mat, bench, it,
                   timing, profile, teamVars, ghostVars>>

Usage ==
    /\ pc = "main"
    /\ Len(argv) < 2
    /\ stdout' = Append(stdout, UsageText)
    /\ exit' = <<EXIT_SUCCESS>>
    /\ pc' = "exited"
    /\ UNCHANGED <<inputs, initVars, randPos, schedule, n, step, heap, mat, bench, it,
                   timing, profile, teamVars, ghostVars>>

\* n = atoi(argv[1]); assert(n > 0).
ReadArgs ==
    /\ pc = "main"
    /\ Len(argv) >= 2
    /\ n' = Atoi(argv[2])
    /\ pc' = IF n' > 0 THEN "profile_setup" ELSE "aborted"
    /\ UNCHANGED <<inputs, initVars, randPos, schedule, step, heap, mat, bench, it,
                   timing, stdout, exit, profile, teamVars, ghostVars>>

\* profile_setup(omp_get_num_procs()).
ProfileSetup ==
    /\ pc = "profile_setup"
    /\ profile' = [profile EXCEPT !.setup = @ + 1]
    /\ pc' = "create"
    /\ UNCHANGED <<inputs, initVars, randPos, schedule, n, step, heap, mat, bench, it,
                   timing, stdout, exit, teamVars, ghostVars>>

\* malloc, assert(m != NULL), memset: the buffer or the abort.
\* (CreateUnchecked goes on without the buffer when malloc fails.)
CreateUnchecked(name) ==
    \E ok \in BOOLEAN :
        /\ IF ok
           THEN /\ heap' = [heap EXCEPT ![name] = "live"]
                /\ mat' = [mat EXCEPT ![name] = ZeroMatrix(n)]
           ELSE UNCHANGED <<heap, mat>>
        /\ pc' = "init"
        /\ UNCHANGED <<inputs, initVars, randPos, schedule, n, step, bench, it, timing,
                       stdout, exit, profile, teamVars, ghostVars>>

Create(name) ==
    \E ok \in BOOLEAN :
        /\ IF ok
           THEN /\ heap' = [heap EXCEPT ![name] = "live"]
                /\ mat' = [mat EXCEPT ![name] = ZeroMatrix(n)]
                /\ pc' = "init"
           ELSE /\ pc' = "aborted"
                /\ UNCHANGED <<heap, mat>>
        /\ UNCHANGED <<inputs, initVars, randPos, schedule, n, step, bench, it, timing,
                       stdout, exit, profile, teamVars, ghostVars>>

matrix_create ==
    /\ pc = "create"
    /\ CreateOrder[step] # "a2"
    /\ Create(CreateOrder[step])

sparsematrix_create ==
    /\ pc = "create"
    /\ CreateOrder[step] = "a2"
    /\ Create(CreateOrder[step])

\* What follows the initialization of the matrix of this step.
AfterInit ==
    /\ pc' = IF step = Len(CreateOrder) THEN "bench" ELSE "create"
    /\ step' = IF step = Len(CreateOrder) THEN step ELSE step + 1
    /\ UNCHANGED <<inputs, buf, schedule, n, heap, bench, it, timing, stdout,
                   exit, profile, teamVars, cEntry, calls>>

matrix_init ==
    /\ pc = "init"
    /\ CreateOrder[step] # "a2"
    /\ LET name == CreateOrder[step]
           r == MatrixInitFrom(randSeq, mat[name], n, 0, randPos)
       IN  /\ mat' = [mat EXCEPT ![name] = r.m]
           /\ randPos' = r.pos
           /\ drawLog' = r.log
           /\ c0' = IF name \in DOMAIN c0 THEN [c0 EXCEPT ![name] = r.m] ELSE c0
    /\ AfterInit

sparsematrix_init ==
    /\ pc = "init"
    /\ CreateOrder[step] = "a2"
    /\ LET r == SparseInitFrom(randSeq, mat["a2"], n, 0, randPos)
       IN  /\ mat' = [mat EXCEPT !["a2"] = r.m]
           /\ randPos' = r.pos
           /\ drawLog' = r.log
    /\ c0' = c0
    /\ AfterInit

\* The call of a kernel: what the kernel finds on entry.
Call ==
    /\ pc' = "kernel"
    /\ cEntry' = mat[Args.c]
    /\ calls' = [calls EXCEPT ![bench] = @ + 1]
    /\ regions' = 0
    /\ macs' = 0
    /\ outer' = 0

\* start = omp_get_wtime(), then the call of the benchmark's kernel.
IterBegin ==
    /\ pc = "bench"
    /\ timing' = TRUE
    /\ Call
    /\ UNCHANGED <<inputs, initVars, randPos, schedule, n, step, heap, mat, bench, it,
                   stdout, exit, profile, w, next, iterCount, touched, c0>>

\* Whether the iteration prints its timing line: "if (it)".
\* (PrintsAlways prints the line of the warm-up iteration too.)
PrintsAlways(i) == TRUE

Prints(i) == i # 0

\* end = omp_get_wtime(), the timing line, it++ and the loop test; after
\* the last iteration the next benchmark or the house keeping.
IterEnd ==
    /\ pc = "return"
    /\ timing' = FALSE
    /\ stdout' = IF Prints(it) THEN Append(stdout, Labels[bench]) ELSE stdout
    /\ IF it + 1 <= NITERATIONS
       THEN /\ it' = it + 1
            /\ pc' = "bench"
            /\ UNCHANGED bench
       ELSE IF bench < 3
       THEN /\ it' = 0
            /\ bench' = bench + 1
            /\ pc' = "bench"
       ELSE /\ pc' = "housekeeping"
            /\ UNCHANGED <<bench, it>>
    /\ UNCHANGED <<inputs, initVars, randPos, schedule, n, step, heap, mat, exit,
                   profile, teamVars, ghostVars>>

\* free of the six matrices and return (EXIT_FAILURE).
\* (HouseKeepingSuccess returns EXIT_SUCCESS.)
HouseKeepingSuccess ==
    /\ pc = "housekeeping"
    /\ heap' = [m \in MatrixNames |-> "freed"]
    /\ mat' = [m \in MatrixNames |-> <<>>]
    /\ exit' = <<EXIT_SUCCESS>>
    /\ pc' = "exited"
    /\ UNCHANGED <<inputs, initVars, randPos, schedule, n, step, bench, it, timing,
                   stdout, profile, teamVars, ghostVars>>

HouseKeeping ==
    /\ pc = "housekeeping"
    /\ heap' = [m \in MatrixNames |-> "freed"]
    /\ mat' = [m \in MatrixNames |-> <<>>]
    /\ exit' = <<EXIT_FAILURE>>
    /\ pc' = "exited"
    /\ UNCHANGED <<inputs, initVars, randPos, schedule, n, step, bench, it, timing,
                   stdout, profile, teamVars, ghostVars>>

(* ----------------------------- kernels --------------------------------- *)

\* The cell of c worker record wr is working on: in matrix_mult2 the
\* work-shared index is the column j of row outer, in the other kernels it
\* is the row i.
Row(wr) == IF Kern = "matrix_mult2" THEN outer ELSE wr.x

Col(wr) == IF Kern = "matrix_mult2" THEN wr.x ELSE wr.j

\* The worker after one multiply-accumulate: the next k, else the next j,
\* else the next iteration of its chunk, else the end of the chunk.
\* (AdvanceShort is an inner loop that stops one k early.)
AdvanceShort(wr) ==
    IF wr.k + 1 < n - 1
    THEN [wr EXCEPT !.pc = "load", !.k = @ + 1, !.tmp = 0]
    ELSE IF Kern # "matrix_mult2" /\ wr.j + 1 < n
    THEN [wr EXCEPT !.pc = "load", !.k = 0, !.j = @ + 1, !.tmp = 0]
    ELSE IF wr.x + 1 < wr.hi
    THEN [wr EXCEPT !.pc = "load", !.k = 0, !.j = 0, !.x = @ + 1, !.tmp = 0]
    ELSE [Idle EXCEPT !.pc = IF LoopSchedule = "static" THEN "barrier"
                                                        ELSE "sched"]

Advance(wr) ==
    IF wr.k + 1 < n
    THEN [wr EXCEPT !.pc = "load", !.k = @ + 1, !.tmp = 0]
    ELSE IF Kern # "matrix_mult2" /\ wr.j + 1 < n
    THEN [wr EXCEPT !.pc = "load", !.k = 0, !.j = @ + 1, !.tmp = 0]
    ELSE IF wr.x + 1 < wr.hi
    THEN [wr EXCEPT !.pc = "load", !.k = 0, !.j = 0, !.x = @ + 1, !.tmp = 0]
    ELSE [Idle EXCEPT !.pc = IF LoopSchedule = "static" THEN "barrier"
                                                        ELSE "sched"]

\* iterCount once the worker has moved from record old to record new.
Counted(old, new) ==
    IF new.pc = "load" /\ new.x # old.x
    THEN [iterCount EXCEPT ![new.x] = @ + 1]
    ELSE iterCount

\* "#pragma omp parallel": the team is forked.
Fork ==
    /\ pc = "kernel"
    /\ pc' = "region"
    /\ w' = [t \in Team |-> [Idle EXCEPT !.pc = "start"]]
    /\ next' = 0
    /\ iterCount' = [x \in 0..(n - 1) |-> 0]
    /\ touched' = [idx \in Cells(n) |-> {}]
    /\ regions' = regions + 1
    /\ UNCHANGED <<inputs, initVars, randPos, schedule, n, step, heap, mat, bench, it,
                   timing, stdout, exit, profile, outer, macs, ghostVars>>

\* profile_start(), then the worker reaches the work-shared loop.
WorkerStart(t) ==
    /\ pc = "region"
    /\ w[t].pc = "start"
    /\ profile' = [profile EXCEPT !.started[t] = @ + 1]
    /\ w' = [w EXCEPT ![t].pc = "sched"]
    /\ UNCHANGED <<inputs, initVars, randPos, mainVars, mat, outer, next, iterCount,
                   touched, regions, macs, ghostVars>>

\* The worker takes its chunk [lo, hi) and starts on lo.
Take(t, lo, hi) ==
    /\ w' = [w EXCEPT ![t] = [Idle EXCEPT !.pc = "load", !.x = lo, !.hi = hi]]
    /\ iterCount' = [iterCount EXCEPT ![lo] = @ + 1]

\* The worker asks the work-shared loop for iterations.
WorkerSched(t) ==
    /\ pc = "region"
    /\ w[t].pc = "sched"
    /\ IF LoopSchedule = "static"
       THEN /\ IF StaticLo(n, nthreads, t) < StaticHi(n, nthreads, t)
               THEN Take(t, StaticLo(n, nthreads, t), StaticHi(n, nthreads, t))
               ELSE /\ w' = [w EXCEPT ![t].pc = "barrier"]
                    /\ UNCHANGED iterCount
            /\ UNCHANGED next
       ELSE IF next < n
       THEN /\ next' = next + ChunkSize(LoopSchedule, n - next, nthreads)
            /\ Take(t, next, next')
       ELSE /\ w' = [w EXCEPT ![t].pc = "barrier"]
            /\ UNCHANGED <<next, iterCount>>
    /\ UNCHANGED <<inputs, initVars, randPos, mainVars, mat, profile, outer, touched,
                   regions, macs, ghostVars>>

\* The worker reads its operands and the cell of c and computes the sum;
\* sparsematrix_mult skips the cell when the element of a is zero.
WorkerLoad(t) ==
    /\ pc = "region"
    /\ w[t].pc = "load"
    /\ LET wr == w[t]
           cell == MATRIX(n, Row(wr), Col(wr))
           av == mat[Args.a][MATRIX(n, Row(wr), wr.k)]
           bv == mat[Args.b][MATRIX(n, wr.k, Col(wr))]
       IN  IF Executes(Kern, av)
           THEN /\ w' = [w EXCEPT ![t].pc = "store",
                                  ![t].tmp = Accumulate(mat[Args.c][cell], av, bv)]
                /\ touched' = [touched EXCEPT ![cell] = @ \cup {t}]
                /\ macs' = macs + 1
                /\ UNCHANGED iterCount
           ELSE /\ w' = [w EXCEPT ![t] = Advance(wr)]
                /\ iterCount' = Counted(wr, Advance(wr))
                /\ UNCHANGED <<touched, macs>>
    /\ UNCHANGED <<inputs, initVars, randPos, mainVars, mat, profile, outer,
                   next, regions, ghostVars>>

\* The worker writes the sum back to the cell of c.
WorkerStore(t) ==
    /\ pc = "region"
    /\ w[t].pc = "store"
    /\ LET wr == w[t]
           cell == MATRIX(n, Row(wr), Col(wr))
       IN  /\ mat' = [mat EXCEPT ![Args.c][cell] = wr.tmp]
           /\ w' = [w EXCEPT ![t] = Advance(wr)]
           /\ iterCount' = Counted(wr, Advance(wr))
    /\ UNCHANGED <<inputs, initVars, randPos, mainVars, profile, outer, next, touched,
                   regions, macs, ghostVars>>

\* The barrier that ends the work-shared loop, then profile_end().
\* (WorkerEndUnprofiled leaves the region without calling profile_end;
\* WorkerEndLate passes the barrier only while the whole team waits at it.)
WorkerEndLate(t) ==
    /\ pc = "region"
    /\ w[t].pc = "barrier"
    /\ \A u \in Team : w[u].pc = "barrier"
    /\ profile' = [profile EXCEPT !.ended[t] = @ + 1]
    /\ w' = [w EXCEPT ![t].pc = "joined"]
    /\ UNCHANGED <<inputs, initVars, randPos, mainVars, mat, outer, next,
                   iterCount, touched, regions, macs, ghostVars>>

WorkerEndUnprofiled(t) ==
    /\ pc = "region"
    /\ w[t].pc = "barrier"
    /\ \A u \in Team : w[u].pc \in {"barrier", "joined"}
    /\ w' = [w EXCEPT ![t].pc = "joined"]
    /\ UNCHANGED <<inputs, initVars, randPos, mainVars, mat, profile, outer,
                   next, iterCount, touched, regions, macs, ghostVars>>

WorkerEnd(t) ==
    /\ pc = "region"
    /\ w[t].pc = "barrier"
    /\ \A u \in Team : w[u].pc \in {"barrier", "joined"}
    /\ profile' = [profile EXCEPT !.ended[t] = @ + 1]
    /\ w' = [w EXCEPT ![t].pc = "joined"]
    /\ UNCHANGED <<inputs, initVars, randPos, mainVars, mat, outer, next, iterCount,
                   touched, regions, macs, ghostVars>>

\* The end of the parallel region; matrix_mult2 goes on with its next row.
\* (JoinOnce is matrix_mult2 without its loop over the rows.)
JoinOnce ==
    /\ pc = "region"
    /\ \A t \in Team : w[t].pc = "joined"
    /\ w' = [t \in Team |-> Idle]
    /\ outer' = 0
    /\ pc' = "dump"
    /\ UNCHANGED <<inputs, initVars, randPos, schedule, n, step, heap, mat,
                   bench, it, timing, stdout, exit, profile, next, iterCount,
                   touched, regions, macs, ghostVars>>

Join ==
    /\ pc = "region"
    /\ \A t \in Team : w[t].pc = "joined"
    /\ w' = [t \in Team |-> Idle]
    /\ IF Kern = "matrix_mult2" /\ outer + 1 < n
       THEN /\ outer' = outer + 1
            /\ pc' = "kernel"
       ELSE /\ outer' = 0
            /\ pc' = "dump"
    /\ UNCHANGED <<inputs, initVars, randPos, schedule, n, step, heap, mat, bench, it,
                   timing, stdout, exit, profile, next, iterCount, touched,
                   regions, macs, ghostVars>>

\* profile_dump(), then the kernel returns.
ProfileDump ==
    /\ pc = "dump"
    /\ profile' = [profile EXCEPT !.dumps = @ + 1]
    /\ pc' = "return"
    /\ UNCHANGED <<inputs, initVars, randPos, schedule, n, step, heap, mat, bench, it,
                   timing, stdout, exit, teamVars, ghostVars>>

profile_start == \E t \in Team : WorkerStart(t)

omp_for == \E t \in Team : WorkerSched(t)

Load == \E t \in Team : WorkerLoad(t)

Store == \E t \in Team : WorkerStore(t)

profile_end == \E t \in Team : WorkerEnd(t)

(* ------------------------- the whole program --------------------------- *)

Next ==
    \/ Build
    \/ Usage
    \/ ReadArgs
    \/ ProfileSetup
    \/ matrix_create
    \/ matrix_init
    \/ sparsematrix_create
    \/ sparsematrix_init
    \/ IterBegin
    \/ Fork
    \/ profile_start
    \/ omp_for
    \/ Load
    \/ Store
    \/ profile_end
    \/ Join
    \/ ProfileDump
    \/ IterEnd
    \/ HouseKeeping

Spec == Init /\ [][Next]_vars

(* The whole program under fair scheduling: the main thread and the        *)
(* workers are threads of the operating system, and a thread that can take *)
(* a step is eventually run; a step of the program that stays possible is  *)
(* eventually taken.                                                       *)
SpecFair == Spec /\ WF_vars(Next)

(* ------------------------- a single kernel call ------------------------ *)

PolicyFlag(sched) ==
    CASE sched = "static" -> "_SCHEDULE_STATIC_"
      [] sched = "dynamic" -> "_SCHEDULE_DYNAMIC_"
      [] sched = "guided" -> "_SCHEDULE_GUIDED_"

(* The three kernels are called one after the other, each once, on the     *)
(* same operands a and b and on accumulators of equal content: main after  *)
(* its initialization, with a2 = a1 and c1 = c2 = c3.  The operands are    *)
(* filled by the initialization routines; the accumulators are zeroed or   *)
(* filled by matrix_init.                                                  *)
InitKernel ==
    \E size \in 1..MaxN, sched \in {"static", "dynamic", "guided"},
       seq \in [1..OperandPeriod -> RandValues], sparse \in BOOLEAN,
       zeroed \in BOOLEAN :
        LET ra == IF sparse
                  THEN SparseInitFrom(seq, ZeroMatrix(size), size, 0, 1)
                  ELSE MatrixInitFrom(seq, ZeroMatrix(size), size, 0, 1)
            rb == MatrixInitFrom(seq, ZeroMatrix(size), size, 0, ra.pos)
            rc == MatrixInitFrom(seq, ZeroMatrix(size), size, 0, rb.pos)
            c == IF zeroed THEN ZeroMatrix(size) ELSE rc.m
        IN  /\ argv = <<ProgName, Numeral(size)>>
            /\ flags = {PolicyFlag(sched)}
            /\ nthreads \in 1..MaxThreads
            /\ randSeq = seq
            /\ randPos = rc.pos
            /\ pc = "harness"
            /\ schedule = sched
            /\ n = size
            /\ step = Len(CreateOrder)
            /\ heap = [m \in MatrixNames |-> "live"]
            /\ mat = [a1 |-> ra.m, a2 |-> ra.m, b |-> rb.m,
                      c1 |-> c, c2 |-> c, c3 |-> c]
            /\ bench = 1
            /\ it = 0
            /\ timing = FALSE
            /\ stdout = <<>>
            /\ exit = <<>>
            /\ profile = [NoProfile(nthreads) EXCEPT !.setup = 1]
            /\ outer = 0
            /\ w = [t \in Team |-> Idle]
            /\ next = 0
            /\ iterCount = <<>>
            /\ touched = <<>>
            /\ cEntry = <<>>
            /\ c0 = [c1 |-> c, c2 |-> c, c3 |-> c]
            /\ calls = [k \in 1..3 |-> 0]
            /\ regions = 0
            /\ macs = 0
            /\ drawLog = ra.log
            /\ buf = NoBuffer

\* The call of the next kernel.
CallKernel ==
    /\ pc = "harness"
    /\ Call
    /\ UNCHANGED <<inputs, initVars, randPos, schedule, n, step, heap, mat, bench, it,
                   timing, stdout, exit, profile, w, next, iterCount, touched,
                   c0>>

\* The kernel has returned; the next kernel, if any, is called next.
ReturnKernel ==
    /\ pc = "return"
    /\ IF bench < 3
       THEN /\ bench' = bench + 1
            /\ pc' = "harness"
       ELSE /\ pc' = "returned"
            /\ UNCHANGED bench
    /\ UNCHANGED <<inputs, initVars, randPos, schedule, n, step, heap, mat, it, timing,
                   stdout, exit, profile, teamVars, ghostVars>>

NextKernel ==
    \/ CallKernel
    \/ Fork
    \/ profile_start
    \/ omp_for
    \/ Load
    \/ Store
    \/ profile_end
    \/ Join
    \/ ProfileDump
    \/ ReturnKernel

SpecKernel == InitKernel /\ [][NextKernel]_vars

(* --------------------- the kernels on main's operands ------------------ *)

(* main after its initialization, for a size at which sparsematrix_init    *)
(* has rows to thin out: a1, b, c1, c2, c3 filled by matrix_init and a2 by *)
(* sparsematrix_init, in the order of main.  The kernels are then called   *)
(* one after the other as main calls them: matrix_mult1(c1, a1, b),        *)
(* matrix_mult2(c2, a1, b), sparsematrix_mult(c3, a2, b).                  *)
InitSparse ==
    \E sched \in {"static", "dynamic", "guided"},
       seq \in [1..SparsePeriod -> RandValues] :
        LET z == ZeroMatrix(SparseSize)
            \* matrix_init calls rand() once for each of its cells.
            after(k) == RandAfter(seq, 1, k * SparseSize * SparseSize)
            ra1 == MatrixInitFrom(seq, z, SparseSize, 0, after(0))
            rb == MatrixInitFrom(seq, z, SparseSize, 0, after(1))
            rc1 == MatrixInitFrom(seq, z, SparseSize, 0, after(2))
            rc2 == MatrixInitFrom(seq, z, SparseSize, 0, after(3))
            rc3 == MatrixInitFrom(seq, z, SparseSize, 0, after(4))
            ra2 == SparseInitFrom(seq, z, SparseSize, 0, after(5))
        IN  /\ argv = <<ProgName, Numeral(SparseSize)>>
            /\ flags = {PolicyFlag(sched)}
            /\ nthreads \in 1..SparseThreads
            /\ randSeq = seq
            /\ randPos = ra2.pos
            /\ pc = "harness"
            /\ schedule = sched
            /\ n = SparseSize
            /\ step = Len(CreateOrder)
            /\ heap = [m \in MatrixNames |-> "live"]
            /\ mat = [a1 |-> ra1.m, a2 |-> ra2.m, b |-> rb.m,
                      c1 |-> rc1.m, c2 |-> rc2.m, c3 |-> rc3.m]
            /\ bench = 1
            /\ it = 0
            /\ timing = FALSE
            /\ stdout = <<>>
            /\ exit = <<>>
            /\ profile = [NoProfile(nthreads) EXCEPT !.setup = 1]
            /\ outer = 0
            /\ w = [t \in Team |-> Idle]
            /\ next = 0
            /\ iterCount = <<>>
            /\ touched = <<>>
            /\ cEntry = <<>>
            /\ c0 = [c1 |-> rc1.m, c2 |-> rc2.m, c3 |-> rc3.m]
            /\ calls = [k \in 1..3 |-> 0]
            /\ regions = 0
            /\ macs = 0
            /\ drawLog = ra2.log
            /\ buf = NoBuffer

SpecSparse == InitSparse /\ [][NextKernel]_vars

(* ------------------- a create routine for every size ------------------ *)

\* The sizes a create routine is followed for: small ones, and the ones
\* around the points where n*n leaves the range of int and wraps.
CreateSizes ==
    (1..MaxCreateSmall) \cup {46340, 46341, 65535, 65536, 65537, INT_MAX}

(* main at the call of matrix_create(n) for a1 or of sparsematrix_create(n) *)
(* for a2, for a size of CreateSizes.                                      *)
InitCreate ==
    \E size \in CreateSizes, first \in {1, Len(CreateOrder)} :
        /\ argv = <<ProgName, Numeral(size)>>
        /\ flags = {"_SCHEDULE_STATIC_"}
        /\ nthreads = 1
        /\ randSeq = [i \in 1..RandPeriod |-> 0]
        /\ randPos = 1
        /\ pc = "create"
        /\ schedule = "static"
        /\ n = size
        /\ step = first
        /\ heap = [m \in MatrixNames |-> "unallocated"]
        /\ mat = [m \in MatrixNames |-> <<>>]
        /\ bench = 1
        /\ it = 0
        /\ timing = FALSE
        /\ stdout = <<>>
        /\ exit = <<>>
        /\ profile = [NoProfile(nthreads) EXCEPT !.setup = 1]
        /\ outer = 0
        /\ w = [t \in Team |-> Idle]
        /\ next = 0
        /\ iterCount = <<>>
        /\ touched = <<>>
        /\ cEntry = <<>>
        /\ c0 = [m \in {"c1", "c2", "c3"} |-> <<>>]
        /\ calls = [k \in 1..3 |-> 0]
        /\ regions = 0
        /\ macs = 0
        /\ drawLog = <<>>
        /\ buf = NoBuffer

createFrame == <<inputs, randPos, pc, schedule, n, step, heap, mat, bench, it,
                 timing, stdout, exit, profile, teamVars, ghostVars, drawLog>>

\* m = malloc(n*n*sizeof(double)): NULL, or a buffer of the bytes asked for.
Malloc ==
    /\ pc = "create"
    /\ buf.pc = "none"
    /\ \E size \in SizeArgs(n), ok \in BOOLEAN :
           buf' = IF ok /\ Servable(size)
                  THEN [pc |-> "assert", routine |-> Routine, m |-> "buffer",
                        bytes |-> size, zeroed |-> Bytes(0, SizeBytes)]
                  ELSE [pc |-> "assert", routine |-> Routine, m |-> "NULL",
                        bytes |-> Bytes(0, SizeBytes),
                        zeroed |-> Bytes(0, SizeBytes)]
    /\ UNCHANGED createFrame

\* assert(m != NULL).
AssertNotNull ==
    /\ buf.pc = "assert"
    /\ buf' = [buf EXCEPT !.pc = IF buf.m = "NULL" THEN "aborted" ELSE "memset"]
    /\ UNCHANGED createFrame

\* memset(m, 0, n*n*sizeof(double)); return (m).
Memset ==
    /\ buf.pc = "memset"
    /\ \E size \in SizeArgs(n) :
           buf' = [buf EXCEPT !.pc = "returned", !.zeroed = size]
    /\ UNCHANGED createFrame

NextCreate ==
    \/ Malloc
    \/ AssertNotNull
    \/ Memset

SpecCreate == InitCreate /\ [][NextCreate]_vars

(* ------------------------ main's initialization ----------------------- *)

(* main after profile_setup, for sizes up to MaxInitN: the six matrices    *)
(* are created and initialized in the order of main.                       *)
InitInit ==
    \E size \in 1..MaxInitN :
        /\ argv = <<ProgName, Numeral(size)>>
        /\ flags = {"_SCHEDULE_STATIC_"}
        /\ nthreads = 1
        /\ randSeq \in [1..InitPeriod -> InitDraws]
        /\ randPos = 1
        /\ pc = "create"
        /\ schedule = "static"
        /\ n = size
        /\ step = 1
        /\ heap = [m \in MatrixNames |-> "unallocated"]
        /\ mat = [m \in MatrixNames |-> <<>>]
        /\ bench = 1
        /\ it = 0
        /\ timing = FALSE
        /\ stdout = <<>>
        /\ exit = <<>>
        /\ profile = [NoProfile(nthreads) EXCEPT !.setup = 1]
        /\ outer = 0
        /\ w = [t \in Team |-> Idle]
        /\ next = 0
        /\ iterCount = <<>>
        /\ touched = <<>>
        /\ cEntry = <<>>
        /\ c0 = [m \in {"c1", "c2", "c3"} |-> <<>>]
        /\ calls = [k \in 1..3 |-> 0]
        /\ regions = 0
        /\ macs = 0
        /\ drawLog = <<>>
        /\ buf = NoBuffer

NextInit ==
    \/ matrix_create
    \/ matrix_init
    \/ sparsematrix_create
    \/ sparsematrix_init

SpecInit == InitInit /\ [][NextInit]_vars

(* ------------------------------ claims --------------------------------- *)

\* SUM_{k in from..sz-1} a[i][k]*b[k][j].
RECURSIVE DotFrom(_, _, _, _, _, _)
DotFrom(a, b, sz, i, j, from) ==
    IF from >= sz
    THEN 0
    ELSE FMul(a[MATRIX(sz, i, from)], b[MATRIX(sz, from, j)])
         + DotFrom(a, b, sz, i, j, from + 1)

\* The textbook matrix product a*b of two sz*sz matrices.
Product(a, b, sz) ==
    [idx \in Cells(sz) |-> DotFrom(a, b, sz, idx \div sz, idx % sz, 0)]

\* c + t*p, cell by cell.
PlusTimes(c, t, p, sz) == [idx \in Cells(sz) |-> c[idx] + t * p[idx]]

AllCalls(k) == [b \in 1..3 |-> k]

Positive(m) == \E idx \in DOMAIN m : m[idx] # 0

\* The cell a worker at "store" is about to write.
Pending(t) == MATRIX(n, Row(w[t]), Col(w[t]))

\* C1: when a kernel returns, every cell of its accumulator holds what it
\* held on entry plus SUM_k a[i][k]*b[k][j], whatever the kernel, the team
\* size, the schedule and the interleaving of the workers.
C1_KernelAddsProduct ==
    pc = "return" =>
        mat[Args.c] =
            PlusTimes(cEntry, 1, Product(mat[Args.a], mat[Args.b], n), n)

\* A return of sparsematrix_mult from a team larger than n, on a non-zero
\* accumulator, with a zero in a and a cell that changed.
C1_Witness ==
    /\ pc = "return"
    /\ bench = 3
    /\ n > 1
    /\ nthreads > n
    /\ Positive(cEntry)
    /\ \E idx \in Cells(n) : mat["a2"][idx] = 0
    /\ mat["c3"] # cEntry

C3_EveryIndexOnce ==
    (Kern = "sparsematrix_mult" /\ pc \in {"region", "dump", "return"}) =>
        /\ \A x \in 0..(n - 1) : iterCount[x] <= 1
        /\ (pc # "region" \/ \A t \in Team : w[t].pc = "joined") =>
               \A x \in 0..(n - 1) : iterCount[x] = 1

\* The end of a dynamically scheduled region whose team is larger than n,
\* in which the last worker took the first index.
C3_Witness ==
    /\ pc = "dump"
    /\ Kern = "sparsematrix_mult"
    /\ schedule = "dynamic"
    /\ n > 1
    /\ nthreads > n
    /\ (nthreads - 1) \in touched[0]

\* C4: on the same operands and zeroed accumulators the three kernels leave
\* the same matrix.
C4_KernelsAgree ==
    (pc = "returned" /\ c0["c1"] = ZeroMatrix(n)) =>
        /\ mat["c1"] = mat["c2"]
        /\ mat["c2"] = mat["c3"]

\* The three kernels have run on zeroed accumulators and an operand a that
\* holds zeros and non-zeros, and the result is not zero.
C4_Witness ==
    /\ pc = "returned"
    /\ c0["c1"] = ZeroMatrix(n)
    /\ \E idx \in Cells(n) : mat["a1"][idx] = 0
    /\ Positive(mat["a1"])
    /\ Positive(mat["c3"])

\* The positions of main between the first start = omp_get_wtime() and the
\* end of the last benchmark loop.
InBench == {"bench", "kernel", "region", "dump", "return"}

\* The timing lines printed once the benchmarks before b are over and cnt
\* lines of benchmark b are out.
RECURSIVE TimingLines(_, _)
TimingLines(b, cnt) ==
    IF b = 1
    THEN [i \in 1..cnt |-> Labels[1]]
    ELSE TimingLines(b - 1, NITERATIONS) \o [i \in 1..cnt |-> Labels[b]]

\* C5: a normal run invokes each kernel NITERATIONS + 1 times and prints a
\* line for the iterations 1..NITERATIONS only: at every point of the
\* benchmarks stdout is the NITERATIONS lines of each earlier benchmark
\* followed by one line per completed iteration of the current one but the
\* first, a later kernel has not been invoked before the current benchmark
\* is over, and the run ends with 5 lines mult1, 5 lines mult2 and 5 lines
\* sparsemult after 6 invocations of each kernel.
C5_TimingLines ==
    /\ pc \in InBench =>
           /\ stdout = TimingLines(bench, IF it = 0 THEN 0 ELSE it - 1)
           /\ calls = [k \in 1..3 |->
                          IF k < bench THEN NITERATIONS + 1
                          ELSE IF k > bench THEN 0
                          ELSE IF pc = "bench" THEN it ELSE it + 1]
    /\ (pc = "housekeeping" \/ (pc = "exited" /\ Len(argv) >= 2)) =>
           /\ stdout = TimingLines(3, NITERATIONS)
           /\ calls = AllCalls(NITERATIONS + 1)

\* The end of a normal run, 15 timing lines out.
C5_Witness ==
    /\ pc = "exited"
    /\ Len(argv) >= 2
    /\ Len(stdout) = 3 * NITERATIONS
    /\ stdout[NITERATIONS] = "mult1"
    /\ stdout[NITERATIONS + 1] = "mult2"
    /\ stdout[3 * NITERATIONS] = "sparsemult"

\* C6: kernel calls accumulate: outside a call, the accumulator of every
\* benchmark is its content after initialization plus as many times a*b as
\* its kernel has been invoked, so twice a*b after two calls and 6 times
\* a*b after the benchmark loop.
C6_CallsAccumulate ==
    pc \in InBench \cup {"housekeeping"} =>
        \A k \in 1..3 :
            (k = bench /\ pc \in {"kernel", "region"})
            \/ mat[KernelArgs(k).c] =
                   PlusTimes(c0[KernelArgs(k).c], calls[k],
                             Product(mat[KernelArgs(k).a],
                                     mat[KernelArgs(k).b], n), n)

\* The benchmarks are over, each accumulator changed by 6 invocations.
C6_Witness ==
    /\ pc = "housekeeping"
    /\ calls = AllCalls(NITERATIONS + 1)
    /\ \A k \in 1..3 : mat[KernelArgs(k).c] # c0[KernelArgs(k).c]

\* Nothing of the run proper has happened: no profiling setup, no matrix,
\* no kernel invocation, no parallel region.
NothingDone ==
    /\ profile.setup = 0
    /\ \A m \in MatrixNames : heap[m] = "unallocated"
    /\ calls = AllCalls(0)
    /\ regions = 0

\* The argument holds no number: after white space and a sign no digit.
NoNumber(s) ==
    LET t == SkipSpace(s)
        u == IF t # <<>> /\ Head(t) \in {"+", "-"} THEN Tail(t) ELSE t
    IN  u = <<>> \/ ~IsDigit(Head(u))

Started == pc \notin {"build", "build_failed", "main"}

\* C7 as stated: started without an argument, or with an argument that does
\* not parse as a decimal integer, the program ends having printed the
\* usage text, with the success status and nothing else done.
C7_UsageOnNoOrBadArgument ==
    (pc \in {"exited", "aborted"} /\ (Len(argv) < 2 \/ NoNumber(argv[2]))) =>
        /\ stdout = <<UsageText>>
        /\ exit = <<EXIT_SUCCESS>>
        /\ NothingDone

\* C7: started without an argument the program prints the usage text and
\* exits with the success status; started with an argument that holds no
\* number it aborts on the sanity check of n, printing nothing; in both
\* cases no profiling is set up, no matrix allocated, no kernel run and no
\* timing line printed.
C7_UsageOnlyWithoutArgument ==
    /\ (Len(argv) < 2 /\ Started) =>
           /\ pc = "exited"
           /\ stdout = <<UsageText>>
           /\ exit = <<EXIT_SUCCESS>>
    /\ (Len(argv) >= 2 /\ NoNumber(argv[2]) /\ Started) =>
           /\ pc = "aborted"
           /\ stdout = <<>>
           /\ exit = <<>>
    /\ (Len(argv) < 2 \/ NoNumber(argv[2])) => NothingDone

\* The program has exited from usage().
C7_Witness ==
    /\ pc = "exited"
    /\ Len(argv) < 2
    /\ stdout = <<UsageText>>
    /\ NothingDone

\* C8: a size n <= 0 aborts before the profiling setup, any allocation, any
\* kernel and any output; a failed allocation aborts too: main goes on from
\* a creation only with a live buffer, the benchmarks run only with the six
\* matrices live, and an aborted process has invoked no kernel and printed
\* and returned nothing.
C8_AbortOnBadSizeOrAllocation ==
    /\ (Started /\ Len(argv) >= 2 /\ n <= 0) =>
           /\ pc = "aborted"
           /\ NothingDone
           /\ stdout = <<>>
           /\ exit = <<>>
    /\ pc = "aborted" =>
           /\ calls = AllCalls(0)
           /\ regions = 0
           /\ stdout = <<>>
           /\ exit = <<>>
    /\ pc = "init" => heap[CreateOrder[step]] = "live"
    /\ pc \in InBench => \A m \in MatrixNames : heap[m] = "live"
    /\ (\E k \in 1..3 : calls[k] > 0) =>
           \A m \in MatrixNames : heap[m] \in {"live", "freed"}

\* The abort on the failure of sparsematrix_create, after five matrices
\* were created and initialized.
C8_Witness ==
    /\ pc = "aborted"
    /\ n > 0
    /\ heap["c3"] = "live"
    /\ heap["a2"] = "unallocated"

C10_ExitStatus ==
    /\ exit # <<>> <=> pc = "exited"
    /\ EXIT_FAILURE # EXIT_SUCCESS
    /\ (pc = "exited" /\ Len(argv) < 2) => exit = <<EXIT_SUCCESS>>
    /\ (pc = "exited" /\ Len(argv) >= 2) =>
           /\ exit = <<EXIT_FAILURE>>
           /\ n > 0
           /\ calls = AllCalls(NITERATIONS + 1)
           /\ \A m \in MatrixNames : heap[m] = "freed"

\* The return of main after the house keeping.
C10_Witness ==
    /\ pc = "exited"
    /\ exit = <<EXIT_FAILURE>>
    /\ calls = AllCalls(NITERATIONS + 1)
    /\ \A m \in MatrixNames : heap[m] = "freed"

(* C11 *)

\* The number of nonzero cells of matrix m.
NonZeroCells(m) == Cardinality({idx \in DOMAIN m : m[idx] # 0})

\* The cells sparsematrix_init forced to zero, by the log of its run on a2.
ForcedZeros == {idx \in Cells(n) : drawLog[idx + 1].zero}

\* C11: one call of sparsematrix_mult executes at most the n*n*n
\* multiply-accumulates one call of matrix_mult1 executes, and fewer when
\* a holds a forced zero in a row i > n/2; the multiply-accumulate of
\* (i, j, k) is skipped exactly when a[i][k] = 0, so the call executes n
\* of them for every nonzero cell of a and none for a zero cell.
C11_SparseSkipsZeros ==
    /\ pc \in {"kernel", "region", "dump", "return"} => macs <= n * n * n
    /\ pc \in {"dump", "return"} /\ Kern = "matrix_mult1" => macs = n * n * n
    /\ pc \in {"dump", "return"} /\ Kern = "sparsematrix_mult" =>
           /\ macs = n * NonZeroCells(mat[Args.a])
           /\ (\E idx \in ForcedZeros : idx \div n > n \div 2) =>
                  macs < n * n * n
    /\ pc = "region" /\ Kern = "sparsematrix_mult" =>
           \A t \in Team :
               w[t].pc = "store" =>
                   mat[Args.a][MATRIX(n, Row(w[t]), w[t].k)] # 0

\* sparsematrix_mult has returned from a call on an operand with a forced
\* zero in a row i > n/2 and with nonzero cells, having executed fewer
\* multiply-accumulates than n*n*n.
C11_Witness ==
    /\ pc = "return"
    /\ Kern = "sparsematrix_mult"
    /\ \E idx \in ForcedZeros : idx \div n > n \div 2
    /\ NonZeroCells(mat[Args.a]) > 0
    /\ 0 < macs
    /\ macs < n * n * n

(* C12 *)

\* C12: for every n > 0 of int, matrix_create(n) and sparsematrix_create(n)
\* either abort on the allocation failure or return a buffer of exactly
\* n*n cells, all of them zero.
C12_CreateReturnsNByNZeros ==
    /\ buf.pc = "aborted" => buf.m = "NULL"
    /\ buf.pc = "returned" =>
           /\ buf.m = "buffer"
           /\ Widen(buf.bytes, SizeBytes + 1) = CellBytes(n)
           /\ buf.zeroed = buf.bytes

(* C13 *)

\* The rows of a matrix of size n that sparsematrix_init does not thin out.
DenseCells == {idx \in Cells(n) : idx \div n <= n \div 2}

\* sparsematrix_init has run on a2: its log is the one in drawLog.
SparseInitDone == pc = "bench" /\ step = Len(CreateOrder)

\* C13 as stated: after sparsematrix_init every cell of every row
\* i <= n/2 is nonzero, whatever rand() returns.
C13_DenseRowsNonzero ==
    SparseInitDone => \A idx \in DenseCells : mat["a2"][idx] # 0

\* C13, amended: after sparsematrix_init no cell of a row i <= n/2 is
\* forced to zero, and such a cell is zero exactly when rand() returned 0
\* for it; forced zeros appear only in rows i > n/2.
C13_DenseRowsZeroOnlyByDraw ==
    SparseInitDone =>
        /\ \A idx \in DenseCells :
               /\ ~drawLog[idx + 1].zero
               /\ mat["a2"][idx] = 0 <=> drawLog[idx + 1].draws = <<0>>
        /\ \A idx \in ForcedZeros : idx \div n > n \div 2

\* sparsematrix_init has left a zero and a nonzero cell in the rows
\* i <= n/2 and has forced a cell of a later row to zero.
C13_Witness ==
    /\ SparseInitDone
    /\ \E idx \in DenseCells : mat["a2"][idx] = 0
    /\ \E idx \in DenseCells : mat["a2"][idx] # 0
    /\ ForcedZeros # {}

(* C14 *)

\* The cells of the rows sparsematrix_init thins out.
EligibleCells == Cells(n) \ DenseCells

\* C14: for every cell of a row i > n/2 the decision is taken from one
\* fresh draw and zeroes the cell for exactly SPARSE_FACTOR = 80 of the 100
\* values of the draw modulo 100 (with a threshold test: the residues below
\* SPARSE_FACTOR); otherwise the cell is a further draw divided by 10.
C14_ZeroedForEightyResidues ==
    SparseInitDone /\ EligibleCells # {} =>
        /\ Cardinality({r \in 0..99 : SparseZero(r)}) = SPARSE_FACTOR
        /\ \A idx \in EligibleCells :
               LET e == drawLog[idx + 1]
               IN  /\ Len(e.draws) >= 1
                   /\ e.zero <=> (e.draws[1] % 100) < SPARSE_FACTOR
                   /\ e.zero => Len(e.draws) = 1 /\ mat["a2"][idx] = 0
                   /\ ~e.zero => /\ Len(e.draws) = 2
                                 /\ mat["a2"][idx] = Tenth(e.draws[2])

(* C20 *)

\* The rows in which sparsematrix_init drew a decision, by its log.
DecidedRows ==
    {i \in 0..(n - 1) :
        \E j \in 0..(n - 1) :
            LET e == drawLog[MATRIX(n, i, j) + 1]
            IN  e.zero \/ Len(e.draws) = 2}

\* Where rand() stood when sparsematrix_init was called: main's five calls
\* of matrix_init have drawn once for each of their cells.
SparseInitStart == RandAfter(randSeq, 1, 5 * n * n)

\* C20: sparsematrix_init draws the decision only in rows i > n/2; in a
\* row i <= n/2 the zero flag is never set and each cell is one draw
\* divided by 10, as matrix_init fills its cells; for n = 1 and n = 2 no
\* row is eligible and no cell is forced to zero, and for n >= 3 exactly
\* n - 1 - n/2 rows are eligible.
C20_SparsityOnlyBeyondHalf ==
    /\ pc = "create" /\ step > 1 =>
           \A idx \in Cells(n) :
               /\ drawLog[idx + 1].zero = FALSE
               /\ Len(drawLog[idx + 1].draws) = 1
               /\ mat[CreateOrder[step - 1]][idx] =
                      Tenth(drawLog[idx + 1].draws[1])
    /\ SparseInitDone =>
           /\ \A idx \in DenseCells :
                  /\ drawLog[idx + 1].zero = FALSE
                  /\ Len(drawLog[idx + 1].draws) = 1
                  /\ mat["a2"][idx] = Tenth(drawLog[idx + 1].draws[1])
                  /\ mat["a2"][idx] =
                         MatrixInitFrom(randSeq, ZeroMatrix(n), n, 0,
                                        SparseInitStart).m[idx]
           /\ DecidedRows = {i \in 0..(n - 1) : i > n \div 2}
           /\ n \in {1, 2} => DecidedRows = {} /\ ForcedZeros = {}
           /\ n >= 3 => Cardinality(DecidedRows) = n - 1 - (n \div 2)

\* sparsematrix_init has run on a matrix with two eligible rows, has forced
\* a zero there and has filled the rows i <= n/2 from one draw each.
C20_Witness ==
    /\ SparseInitDone
    /\ Cardinality(DecidedRows) = 2
    /\ ForcedZeros # {}
    /\ \E idx \in DenseCells : mat["a2"][idx] # 0

(* C15 *)

\* The regions the running kernel call has opened, by where the call is:
\* between two regions as many as rows are done and no worker exists, in a
\* region one more, and after the last region n for matrix_mult2 and 1 for
\* the other kernels.
RegionsSoFar ==
    /\ pc = "kernel" =>
           /\ regions = outer
           /\ \A t \in Team : w[t].pc = "idle"
    /\ pc = "region" =>
           /\ regions = outer + 1
           /\ Kern # "matrix_mult2" => outer = 0
           /\ \A t \in Team : w[t].pc # "idle"
    /\ pc \in {"dump", "return"} =>
           /\ regions = IF Kern = "matrix_mult2" THEN n ELSE 1
           /\ \A t \in Team : w[t].pc = "idle"

\* C15: matrix_mult1 and sparsematrix_mult open and join one parallel
\* region per call and matrix_mult2 n of them, one per row i in increasing
\* order; a region opens only when no worker of an earlier region is left
\* and is left only when every worker of it has finished, so that no two
\* regions are open at once.
C15_RegionsPerCall ==
    [][/\ RegionsSoFar'
       /\ pc = "kernel" /\ pc' = "region" =>
              /\ \A t \in Team : w[t].pc = "idle"
              /\ regions' = regions + 1
              /\ outer' = outer
       /\ pc = "region" /\ pc' # "region" =>
              /\ \A t \in Team : w[t].pc = "joined"
              /\ regions' = regions
              /\ pc' = "kernel" => Kern = "matrix_mult2" /\ outer' = outer + 1
              /\ pc' # "kernel" => pc' = "dump"]_vars

\* matrix_mult2 is in its third region, the one of row 2, with a worker
\* about to store.
C15_Witness ==
    /\ pc = "region"
    /\ Kern = "matrix_mult2"
    /\ outer = 2
    /\ regions = 3
    /\ \E t \in Team : w[t].pc = "store"

(* C16 *)

\* The parallel regions one call of kernel k opens (C15).
RegionsOf(k) == IF Kernels[k] = "matrix_mult2" THEN n ELSE 1

\* The parallel regions opened since the program started.
OpenedRegions ==
    calls[1] * RegionsOf(1) + calls[2] * RegionsOf(2) + calls[3] * RegionsOf(3)
    - (IF pc \in {"kernel", "region"} THEN RegionsOf(bench) - regions ELSE 0)

\* C16: profile_setup is called once, before the first kernel call; in
\* every region every worker, with or without iterations, calls
\* profile_start once before its first iteration and profile_end once
\* after its last; profile_dump is called once per kernel call, by the
\* main thread, after the profile_end of every worker.
C16_ProfilingProtocol ==
    /\ profile.setup =
           IF pc \in {"build", "build_failed", "main", "profile_setup"}
              \/ (pc \in {"exited", "aborted"} /\ heap["a1"] = "unallocated"
                  /\ stdout \in {<<>>, <<UsageText>>} /\ n <= 0)
           THEN 0 ELSE 1
    /\ (\E k \in 1..3 : calls[k] > 0) => profile.setup = 1
    /\ \A t \in Team :
           /\ profile.started[t] =
                  OpenedRegions
                  - (IF pc = "region" /\ w[t].pc = "start" THEN 1 ELSE 0)
           /\ profile.ended[t] =
                  OpenedRegions
                  - (IF pc = "region" /\ w[t].pc # "joined" THEN 1 ELSE 0)
    /\ profile.dumps =
           calls[1] + calls[2] + calls[3]
           - (IF pc \in {"kernel", "region", "dump"} THEN 1 ELSE 0)
    /\ pc = "dump" =>
           \A t \in Team :
               /\ w[t].pc = "idle"
               /\ profile.ended[t] = profile.started[t]

\* In the second call of matrix_mult2, on a matrix smaller than the team,
\* a worker that got no iteration has called profile_end, as often as
\* profile_start, while another worker got the iteration.
C16_Witness ==
    /\ pc = "region"
    /\ Kern = "matrix_mult2"
    /\ calls[2] = 2
    /\ n < nthreads
    /\ \E t \in Team :
           /\ StaticLo(n, nthreads, t) = StaticHi(n, nthreads, t)
           /\ w[t].pc = "joined"
           /\ profile.ended[t] = profile.started[t]
           /\ profile.ended[t] = OpenedRegions
    /\ \E x \in DOMAIN iterCount : iterCount[x] = 1
    /\ profile.dumps = calls[1] + calls[2] - 1

(* C17 *)

\* C17: no call of profile_dump executes between the main thread's read of
\* start and its read of end.
C17_NoDumpWhileTiming ==
    [][profile'.dumps # profile.dumps => ~timing /\ ~timing']_vars

(* C18 *)

\* C18: under fair scheduling every kernel call returns; the main thread
\* leaves a parallel region only when every worker has passed the end of
\* the region and every iteration of the work-shared loop has been run
\* once; and a run that has reached its benchmarks reaches the end of main,
\* having called the kernels 18 times.
C18_ForkJoinCompletes ==
    /\ (pc = "kernel") ~> (pc = "return")
    /\ [][pc = "region" /\ pc' # "region" =>
              /\ \A t \in Team : w[t].pc = "joined"
              /\ \A x \in DOMAIN iterCount : iterCount[x] = 1]_vars
    /\ (pc = "bench") ~> (pc = "exited")
    /\ [](pc = "exited" /\ exit = <<EXIT_FAILURE>> =>
              calls[1] + calls[2] + calls[3] = 18)

\* The program has returned from main after its 18 kernel calls, run by a
\* team of more than one worker.
C18_Witness ==
    /\ pc = "exited"
    /\ exit = <<EXIT_FAILURE>>
    /\ nthreads > 1
    /\ calls = [k \in 1..3 |-> NITERATIONS + 1]
    /\ profile.dumps = 18

(* C19 *)

\* The accumulator of each benchmark, by the calls of main.
Accumulators == <<"c1", "c2", "c3">>

\* Initialization is over and no matrix has been released.
OperandsLive == pc \in InBench \cup {"housekeeping"}

\* What matrix_init stored in the k-th matrix main initialized.
InitializedDense(k) ==
    MatrixInitFrom(randSeq, ZeroMatrix(n), n, 0,
                   RandAfter(randSeq, 1, (k - 1) * n * n)).m

\* What sparsematrix_init stored in a2, by the log of its draws.
InitializedSparse ==
    [idx \in Cells(n) |->
        IF drawLog[idx + 1].zero THEN 0
        ELSE Tenth(drawLog[idx + 1].draws[Len(drawLog[idx + 1].draws)])]

\* While they are live the operands are as initialization left them.
OperandsHold ==
    OperandsLive =>
        /\ mat["a1"] = InitializedDense(1)
        /\ mat["b"] = InitializedDense(2)
        /\ mat["a2"] = InitializedSparse

\* C19: a kernel call changes no matrix but its accumulator, and the
\* benchmark of mult1 changes only c1, that of mult2 only c2 and that of
\* sparsemult only c3; a1, a2 and b hold their initialized values from the
\* end of initialization until they are released.
C19_KernelFrame ==
    [][/\ pc \in InBench =>
              \A m \in MatrixNames \ {Accumulators[bench]} :
                  mat'[m] = mat[m]
       /\ pc \in InBench /\ mat' # mat =>
              /\ pc = "region"
              /\ \E idx \in Cells(n) :
                     mat' = [mat EXCEPT ![Accumulators[bench]][idx] =
                                 mat'[Accumulators[bench]][idx]]
       /\ OperandsHold']_vars

\* sparsematrix_mult has returned from its last call: the three
\* accumulators have changed since initialization, c3 in this call.
C19_Witness ==
    /\ pc = "return"
    /\ bench = 3
    /\ it = NITERATIONS
    /\ mat["c3"] # cEntry
    /\ \A m \in DOMAIN c0 : mat[m] # c0[m]
    /\ mat["a1"] # mat["a2"]


====
